---- MODULE Spec2Model ----
(***************************************************************************)
(* Model of the DFAE backend: the Flask handlers of main.py (POST /upload, *)
(* GET /data/<key>), the temp-file cleanup and JSON store they use, and    *)
(* process_battery_data of Battery.py.                                     *)
(*                                                                         *)
(* The pymavlink connection is the environment: it delivers the messages   *)
(* of the log one by one and then None, and opening it or reading from it  *)
(* may raise.  os.remove, the temp-file save and the JSON file write may   *)
(* fail as well.  Requests are served one at a time.                       *)
(*                                                                         *)
(* Numbers: a voltage is an integer number of millivolts, TimeUS an        *)
(* integer number of microseconds.  The mean is the exact rational         *)
(* [num, den] in lowest terms; round(x, 2) rounds to a multiple of 10 mV.  *)
(* None is the empty sequence and a present value v the sequence <<v>>.    *)
(***************************************************************************)
EXTENDS Integers, Sequences, FiniteSets, TLC

\* Bounds of the model.
MaxLen == 3         \* messages per log in SpecLog
MaxRequests == 2    \* requests served in Spec
MaxTicks == 1       \* seconds the clock advances in Spec

\* Program constants.
Retries == 1                \* safe_remove_file(file_path, retries=1, ...)
MicrosPerSecond == 1000000  \* msg.TimeUS / 1e6
RoundUnit == 10             \* round(x, 2): hundredths of a volt, in millivolts

None == <<>>
Some(v) == <<v>>

----------------------------------------------------------------------------
(* Log messages.  fields holds the attributes the message has; hasattr is  *)
(* membership in its DOMAIN.                                               *)

\* msg.get_type()
get_type(msg) == msg.type

\* hasattr(msg, name)
hasattr(msg, name) == name \in DOMAIN msg.fields

B1 == [type |-> "BAT",
       fields |-> [TimeUS |-> 1000000, Volt |-> 12600, Curr |-> 5, Temp |-> 30]]
B2 == [type |-> "BAT",
       fields |-> [TimeUS |-> 2000000, Volt |-> 12400, Curr |-> 5, VoltR |-> 12300]]
B3 == [type |-> "BAT",
       fields |-> [TimeUS |-> 2500000, Volt |-> 12500, Curr |-> 3]]
\* BAT messages that lack a field process_battery_data reads unguarded.
BNoVolt == [type |-> "BAT", fields |-> [TimeUS |-> 3000000, Curr |-> 4]]
BNoTime == [type |-> "BAT", fields |-> [Volt |-> 12500, Curr |-> 4]]
GpsMsg == [type |-> "GPS", fields |-> [TimeUS |-> 1500000]]
\* A message of another type that carries the fields a BAT message has.
CurrMsg == [type |-> "CURR",
            fields |-> [TimeUS |-> 1700000, Volt |-> 11000, Curr |-> 9]]

Messages == {B1, B2, B3, BNoVolt, BNoTime, GpsMsg, CurrMsg}

\* Every log of at most MaxLen messages.
AllLogs == UNION {[1..n -> Messages] : n \in 0..MaxLen}

\* The logs uploaded in Spec.
ServerLogs == {<<B1, B2, B2>>, <<GpsMsg, CurrMsg>>, <<B1, BNoVolt>>, <<>>}

\* Code-point order of the type names, as sorted() of str compares them.
TypeRank == [BAT |-> 1, CURR |-> 2, GPS |-> 3]

----------------------------------------------------------------------------
(* Pure helpers.                                                           *)

RECURSIVE SeqSum(_)
SeqSum(s) == IF s = <<>> THEN 0 ELSE Head(s) + SeqSum(Tail(s))

RECURSIVE Gcd(_, _)
Gcd(a, b) == IF b = 0 THEN a ELSE Gcd(b, a % b)

\* max(voltages): the first element no later element is greater than.
RECURSIVE PyMax(_, _)
PyMax(best, s) ==
    IF s = <<>> THEN best
    ELSE PyMax(IF Head(s) > best THEN Head(s) ELSE best, Tail(s))

\* min(voltages)
RECURSIVE PyMin(_, _)
PyMin(best, s) ==
    IF s = <<>> THEN best
    ELSE PyMin(IF Head(s) < best THEN Head(s) ELSE best, Tail(s))

\* statistics.mean(voltages), for a non-empty list: the exact mean.
\* (Mean_floor: the mean cut to a whole number, as sum // len would give.)
Mean_floor(vs) == [num |-> SeqSum(vs) \div Len(vs), den |-> 1]
Mean(vs) ==
    LET g == Gcd(SeqSum(vs), Len(vs))
    IN  [num |-> SeqSum(vs) \div g, den |-> Len(vs) \div g]

\* sorted(message_types): ascending, one entry per element of the set.
RECURSIVE sorted(_)
\* (sorted_unordered: the largest name first.)
sorted_unordered(S) ==
    IF S = {} THEN <<>>
    ELSE LET x == CHOOSE y \in S : \A z \in S : TypeRank[y] >= TypeRank[z]
         IN  <<x>> \o sorted(S \ {x})
sorted(S) ==
    IF S = {} THEN <<>>
    ELSE LET x == CHOOSE y \in S : \A z \in S : TypeRank[y] <= TypeRank[z]
         IN  <<x>> \o sorted(S \ {x})

\* round(num/den, 2): the multiples of RoundUnit nearest to num/den.  A value
\* half-way between two of them goes to either, as the float decides.
Round2(num, den) ==
    LET lower == (num \div (RoundUnit * den)) * RoundUnit
        rem2 == 2 * (num - lower * den)
    IN  IF rem2 < RoundUnit * den THEN {lower}
        ELSE IF rem2 > RoundUnit * den THEN {lower + RoundUnit}
        ELSE {lower, lower + RoundUnit}

\* s[:limit] of Python, limit an integer (a negative one counts from the end).
Slice(s, limit) ==
    LET stop == IF limit >= 0 THEN limit ELSE Len(s) + limit
        n == IF stop < 0 THEN 0 ELSE IF stop > Len(s) THEN Len(s) ELSE stop
    IN  SubSeq(s, 1, n)

----------------------------------------------------------------------------
(* Battery.py: the pieces of process_battery_data.                         *)

\* msg.X if hasattr(msg, 'X') else None
OptField(msg, name) ==
    IF hasattr(msg, name) THEN Some(msg.fields[name]) ELSE None

\* msg.TimeUS / 1e6: seconds and the remaining microseconds.
Timestamp(timeUS) ==
    [sec |-> timeUS \div MicrosPerSecond, usec |-> timeUS % MicrosPerSecond]

\* The dict appended to battery_data for one BAT message.
BatRecord(msg) ==
    [timestamp |-> Timestamp(msg.fields.TimeUS),
     Volt      |-> msg.fields.Volt,
     VoltR     |-> OptField(msg, "VoltR"),
     Curr      |-> msg.fields.Curr,
     CurrTot   |-> OptField(msg, "CurrTot"),
     EnrgTot   |-> OptField(msg, "EnrgTot"),
     Temp      |-> OptField(msg, "Temp"),
     Res       |-> OptField(msg, "Res"),
     RemPct    |-> OptField(msg, "RemPct"),
     H         |-> OptField(msg, "H"),
     SH        |-> OptField(msg, "SH")]

\* The loop body for one delivered message: msg.Volt is read first and
\* appended to voltages, then the record is built from TimeUS, Volt, Curr and
\* the optional fields.  Reading a missing attribute raises AttributeError.
\* (OnMessage_any_type: the same without the test of the message type.)
OnMessage_any_type(msg, vs, bd) ==
    IF ~hasattr(msg, "Volt")
    THEN [raised |-> TRUE, voltages |-> vs, battery_data |-> bd]
    ELSE IF ~hasattr(msg, "TimeUS") \/ ~hasattr(msg, "Curr")
    THEN [raised |-> TRUE, voltages |-> Append(vs, msg.fields.Volt), battery_data |-> bd]
    ELSE [raised |-> FALSE, voltages |-> Append(vs, msg.fields.Volt),
          battery_data |-> Append(bd, BatRecord(msg))]
OnMessage(msg, vs, bd) ==
    IF get_type(msg) # "BAT"
    THEN [raised |-> FALSE, voltages |-> vs, battery_data |-> bd]
    ELSE IF ~hasattr(msg, "Volt")
    THEN [raised |-> TRUE, voltages |-> vs, battery_data |-> bd]
    ELSE IF ~hasattr(msg, "TimeUS") \/ ~hasattr(msg, "Curr")
    THEN [raised |-> TRUE, voltages |-> Append(vs, msg.fields.Volt), battery_data |-> bd]
    ELSE [raised |-> FALSE, voltages |-> Append(vs, msg.fields.Volt),
          battery_data |-> Append(bd, BatRecord(msg))]

\* max_voltage, min_voltage, mean_voltage: None when voltages is empty.
\* (Metrics_zero_default: max and min with a default of 0.)
Metrics_zero_default(vs) ==
    [max_voltage  |-> IF vs # <<>> THEN Some(PyMax(Head(vs), Tail(vs))) ELSE Some(0),
     min_voltage  |-> IF vs # <<>> THEN Some(PyMin(Head(vs), Tail(vs))) ELSE Some(0),
     mean_voltage |-> IF vs # <<>> THEN Some(Mean(vs)) ELSE None]
Metrics(vs) ==
    [max_voltage  |-> IF vs # <<>> THEN Some(PyMax(Head(vs), Tail(vs))) ELSE None,
     min_voltage  |-> IF vs # <<>> THEN Some(PyMin(Head(vs), Tail(vs))) ELSE None,
     mean_voltage |-> IF vs # <<>> THEN Some(Mean(vs)) ELSE None]

\* The dict process_battery_data returns.
BatteryResult(bd, vs) ==
    [battery_data |-> bd,
     max_voltage  |-> Metrics(vs).max_voltage,
     min_voltage  |-> Metrics(vs).min_voltage,
     mean_voltage |-> Metrics(vs).mean_voltage]

----------------------------------------------------------------------------
(* main.py: the JSON store and the responses.                              *)

\* A response: the HTTP status and the JSON body.
Response(status, body) == [status |-> status, body |-> body]
NoResponse == Response(0, [error |-> ""])

\* response_data: battery_data, or its first `limit` records when a limit is
\* given and full is not set.  limit is None or Some(n).
ResponseData(bd, limit, full_data) ==
    IF full_data \/ limit = None THEN bd ELSE Slice(bd, limit[1])

\* The body of the HTTP 200 answer of POST /upload: the key, response_data
\* and the rounded metrics and message types of stored_data.
UploadBody(k, response_data, stored) ==
    [key           |-> k,
     battery_data  |-> response_data,
     max_voltage   |-> stored.max_voltage,
     min_voltage   |-> stored.min_voltage,
     mean_voltage  |-> stored.mean_voltage,
     message_types |-> stored.message_types]

\* JSON, as json.dump writes it and json.load reads it: a number is
\* [null |-> FALSE, num |-> n], None is [null |-> TRUE], a list is a list and
\* a str a string.
JsonNumber(n) == [null |-> FALSE, num |-> n]
JsonNull == [null |-> TRUE]
JsonOptional(x) == IF x = None THEN JsonNull ELSE JsonNumber(x[1])
PyNumber(j) == j.num
PyOptional(j) == IF j.null THEN None ELSE Some(j.num)

\* The keys of a battery record whose value may be None.
NullableKeys == {"VoltR", "CurrTot", "EnrgTot", "Temp", "Res", "RemPct", "H", "SH"}

\* json.dump(data, f, indent=4) of stored_data.
json_dump(data) ==
    [battery_data  |-> [i \in 1..Len(data.battery_data) |->
                          [f \in DOMAIN data.battery_data[i] |->
                             IF f \in NullableKeys
                             THEN JsonOptional(data.battery_data[i][f])
                             ELSE JsonNumber(data.battery_data[i][f])]],
     max_voltage   |-> JsonOptional(data.max_voltage),
     min_voltage   |-> JsonOptional(data.min_voltage),
     mean_voltage  |-> JsonOptional(data.mean_voltage),
     message_types |-> data.message_types,
     timestamp     |-> JsonNumber(data.timestamp)]

\* json.load(f) of such a document.
json_load(doc) ==
    [battery_data  |-> [i \in 1..Len(doc.battery_data) |->
                          [f \in DOMAIN doc.battery_data[i] |->
                             IF f \in NullableKeys
                             THEN PyOptional(doc.battery_data[i][f])
                             ELSE PyNumber(doc.battery_data[i][f])]],
     max_voltage   |-> PyOptional(doc.max_voltage),
     min_voltage   |-> PyOptional(doc.min_voltage),
     mean_voltage  |-> PyOptional(doc.mean_voltage),
     message_types |-> doc.message_types,
     timestamp     |-> PyNumber(doc.timestamp)]

\* save_processed_data: the files of processed_data after the call.  The file
\* of the key is opened for writing, which truncates it, and the JSON text is
\* written; either step may fail.  A file is <<doc>> when it holds a complete
\* JSON document and <<>> when it was left truncated.
FileWrite(files, k, content) ==
    [f \in DOMAIN files \cup {k} |-> IF f = k THEN content ELSE files[f]]
save_processed_data(files, k, data, outcome) ==
    CASE outcome = "saved"       -> FileWrite(files, k, Some(json_dump(data)))
      [] outcome = "open_failed" -> files
      [] outcome = "dump_failed" -> FileWrite(files, k, <<>>)

\* get_stored_data: the answer of GET /data/<key> for the files at hand.
get_stored_data(files, k) ==
    IF k \notin DOMAIN files THEN Response(404, [error |-> "Data not found"])
    ELSE IF files[k] = <<>> THEN Response(500, [error |-> "Error retrieving data"])
    ELSE Response(200, json_load(files[k][1]))

----------------------------------------------------------------------------
(* State.                                                                  *)

VARIABLES
    now,            \* int(time.time())
    store,          \* the files of processed_data: key -> file content
    served,         \* requests answered so far
    kind,           \* the handler running: "none", "upload" or "get"
    pc,             \* its position
    req,            \* the request: [keyParam, log]
    key,            \* key of upload_bin, or the <key> of GET /data/<key>
    tempfile,       \* the temporary .bin file: "none", "exists", "removed"
    mlog,           \* upload_bin's connection: "unopened", "open", "closed"
    mlogPos,        \* messages it has delivered
    message_types,  \* upload_bin's set
    blog,           \* process_battery_data's connection
    blogPos,        \* messages it has delivered
    battery_data,   \* process_battery_data's list
    voltages,       \* process_battery_data's list
    result,         \* what process_battery_data returned, None before
    handler,        \* TRUE inside upload_bin's except block
    removeLog,      \* outcome of each os.remove of the current safe_remove_file
    removeRet,      \* what safe_remove_file returned, None before
    resp,           \* the response sent
    ioFailed,       \* opening a connection or reading from it raised
    readClosed,     \* a closed connection was read from
    openAtRemove,   \* connections open when safe_remove_file was called
    published,      \* key -> body of the last HTTP 200 upload answer for it
    autoKeys        \* keys of the HTTP 200 uploads that gave no key parameter

local == <<kind, pc, req, key, tempfile, mlog, mlogPos, message_types, blog,
           blogPos, battery_data, voltages, result, handler, removeLog,
           removeRet, resp, ioFailed, readClosed, openAtRemove>>
vars == <<now, store, served, published, autoKeys, local>>

NoRequest == [keyParam |-> None, log |-> <<>>]

Idle ==
    /\ kind = "none" /\ pc = "idle" /\ req = NoRequest /\ key = ""
    /\ tempfile = "none"
    /\ mlog = "unopened" /\ mlogPos = 0 /\ message_types = {}
    /\ blog = "unopened" /\ blogPos = 0
    /\ battery_data = <<>> /\ voltages = <<>> /\ result = None
    /\ handler = FALSE /\ removeLog = <<>> /\ removeRet = None
    /\ resp = NoResponse
    /\ ioFailed = FALSE /\ readClosed = FALSE /\ openAtRemove = {}

Init ==
    /\ now = 1700000000
    /\ store = <<>>
    /\ served = 0
    /\ published = <<>>
    /\ autoKeys = <<>>
    /\ Idle

----------------------------------------------------------------------------
(* POST /upload: upload_bin, step by step.                                 *)

conn1 == <<mlog, mlogPos, message_types>>
conn2 == <<blog, blogPos, battery_data, voltages, result>>
rm == <<handler, removeLog, removeRet, openAtRemove>>
hist == <<published, autoKeys>>
env == <<now, store, served>>

\* The values of the optional query parameters key and limit.
KeyParams == {None, Some("flightA")}
Limits == {None, Some(0), Some(1), Some(-1)}

\* The connections that are open.
OpenConnections ==
    (IF mlog = "open" THEN {"mlog"} ELSE {}) \cup (IF blog = "open" THEN {"blog"} ELSE {})

\* 'file' is not in request.files: HTTP 400.
UploadNoFile(maxReq) ==
    /\ pc = "idle" /\ served < maxReq
    /\ kind' = "upload"
    /\ resp' = Response(400, [error |-> "No file part"])
    /\ pc' = "done"
    /\ UNCHANGED <<req, key, tempfile, conn1, conn2, rm, ioFailed, readClosed, hist, env>>

\* file.filename is empty: HTTP 400.
UploadNoName(maxReq) ==
    /\ pc = "idle" /\ served < maxReq
    /\ kind' = "upload"
    /\ resp' = Response(400, [error |-> "No selected file"])
    /\ pc' = "done"
    /\ UNCHANGED <<req, key, tempfile, conn1, conn2, rm, ioFailed, readClosed, hist, env>>

\* request.args.get('key', default=str(int(time.time())), type=str)
GenerateKey(keyParam, t) ==
    IF keyParam = None THEN ToString(t) ELSE keyParam[1]

\* A file was sent: the key is taken from the request or from the clock.
UploadStart(logs, keyParams, maxReq) ==
    /\ pc = "idle" /\ served < maxReq
    /\ \E log \in logs, kp \in keyParams :
          /\ req' = [keyParam |-> kp, log |-> log]
          /\ key' = GenerateKey(kp, now)
    /\ kind' = "upload"
    /\ pc' = "save_temp"
    /\ UNCHANGED <<tempfile, conn1, conn2, rm, resp, ioFailed, readClosed, hist, env>>

\* The upload is saved to a NamedTemporaryFile(delete=False).  A failure
\* answers HTTP 500; the file stays behind when it had been created.
SaveTemp ==
    /\ pc = "save_temp"
    /\ \/ /\ tempfile' = "exists"
          /\ pc' = "open" /\ UNCHANGED resp
       \/ /\ tempfile' \in {"none", "exists"}
          /\ pc' = "done" /\ resp' = Response(500, [error |-> "Failed to save file"])
    /\ UNCHANGED <<kind, req, key, conn1, conn2, rm, ioFailed, readClosed, hist, env>>

\* mlog = mavutil.mavlink_connection(log_path, ...), which may raise.
OpenLog ==
    /\ pc = "open"
    /\ \/ /\ mlog' = "open" /\ pc' = "read" /\ UNCHANGED ioFailed
       \/ /\ ioFailed' = TRUE /\ pc' = "except" /\ UNCHANGED mlog
    /\ UNCHANGED <<kind, req, key, tempfile, mlogPos, message_types, conn2, rm,
                   resp, readClosed, hist, env>>

\* One turn of the message-type loop: recv_match raises, returns None, or
\* returns the next message, whose type is added to message_types.
ReadLog ==
    /\ pc = "read"
    /\ readClosed' = (readClosed \/ mlog # "open")
    /\ \/ /\ ioFailed' = TRUE /\ pc' = "except"
          /\ UNCHANGED <<mlogPos, message_types>>
       \/ /\ mlogPos = Len(req.log)
          /\ pc' = "close"
          /\ UNCHANGED <<mlogPos, message_types, ioFailed>>
       \/ /\ mlogPos < Len(req.log)
          /\ mlogPos' = mlogPos + 1
          /\ message_types' = message_types \cup {get_type(req.log[mlogPos + 1])}
          /\ UNCHANGED <<pc, ioFailed>>
    /\ UNCHANGED <<kind, req, key, tempfile, mlog, conn2, rm, resp, hist, env>>

\* mlog.close(), then process_battery_data(log_path) is called.
CloseLog ==
    /\ pc = "close"
    /\ mlog' = "closed"
    /\ pc' = "bat_open"
    /\ UNCHANGED <<kind, req, key, tempfile, mlogPos, message_types, conn2, rm,
                   resp, ioFailed, readClosed, hist, env>>

----------------------------------------------------------------------------
(* process_battery_data, step by step.                                     *)

\* The connection is opened, battery_data and voltages start empty.
BatOpen ==
    /\ pc = "bat_open"
    /\ \/ /\ blog' = "open" /\ pc' = "bat_read" /\ UNCHANGED ioFailed
       \/ /\ ioFailed' = TRUE /\ pc' = "bat_except" /\ UNCHANGED blog
    /\ UNCHANGED <<kind, req, key, tempfile, conn1, blogPos, battery_data, voltages,
                   result, rm, resp, readClosed, hist, env>>

\* One turn of the loop: recv_match raises, returns None, or returns the next
\* message, which OnMessage handles.
BatRead ==
    /\ pc = "bat_read"
    /\ readClosed' = (readClosed \/ blog # "open")
    /\ \/ /\ ioFailed' = TRUE /\ pc' = "bat_except"
          /\ UNCHANGED <<blogPos, battery_data, voltages>>
       \/ /\ blogPos = Len(req.log)
          /\ pc' = "bat_close"
          /\ UNCHANGED <<blogPos, battery_data, voltages, ioFailed>>
       \/ /\ blogPos < Len(req.log)
          /\ LET r == OnMessage(req.log[blogPos + 1], voltages, battery_data)
             IN  /\ blogPos' = blogPos + 1
                 /\ voltages' = r.voltages
                 /\ battery_data' = r.battery_data
                 /\ pc' = IF r.raised THEN "bat_except" ELSE "bat_read"
          /\ UNCHANGED ioFailed
    /\ UNCHANGED <<kind, req, key, tempfile, conn1, blog, result, rm, resp, hist, env>>

\* mlog.close()
BatClose ==
    /\ pc = "bat_close"
    /\ blog' = "closed"
    /\ pc' = "bat_return"
    /\ UNCHANGED <<kind, req, key, tempfile, conn1, blogPos, battery_data, voltages,
                   result, rm, resp, ioFailed, readClosed, hist, env>>

\* The metrics are computed and the dict is returned to upload_bin.
BatReturn ==
    /\ pc = "bat_return"
    /\ result' = Some(BatteryResult(battery_data, voltages))
    /\ pc' = "cleanup"
    /\ UNCHANGED <<kind, req, key, tempfile, conn1, blog, blogPos, battery_data,
                   voltages, rm, resp, ioFailed, readClosed, hist, env>>

\* except Exception: the error is logged and raised again, into upload_bin.
BatExcept ==
    /\ pc = "bat_except"
    /\ pc' = "except"
    /\ UNCHANGED <<kind, req, key, tempfile, conn1, conn2, rm, resp, ioFailed,
                   readClosed, hist, env>>

----------------------------------------------------------------------------
(* safe_remove_file and the rest of upload_bin.                            *)

\* safe_remove_file(log_path) after process_battery_data returned.
CleanUp ==
    /\ pc = "cleanup"
    /\ removeLog' = <<>> /\ removeRet' = None
    /\ openAtRemove' = OpenConnections
    /\ pc' = "remove"
    /\ UNCHANGED <<kind, req, key, tempfile, conn1, conn2, handler, resp, ioFailed,
                   readClosed, hist, env>>

\* except Exception in upload_bin: safe_remove_file(log_path), then HTTP 500.
ExceptHandler ==
    /\ pc = "except"
    /\ handler' = TRUE
    /\ removeLog' = <<>> /\ removeRet' = None
    /\ openAtRemove' = OpenConnections
    /\ pc' = "remove"
    /\ UNCHANGED <<kind, req, key, tempfile, conn1, conn2, resp, ioFailed,
                   readClosed, hist, env>>

\* Where upload_bin goes on when safe_remove_file returns.
AfterRemove == IF handler THEN "error" ELSE "check"

\* for attempt in range(retries): whether another turn of the loop runs.
LoopRuns(attempts) == attempts < Retries

\* One turn of the loop: os.remove succeeds and True is returned, or it
\* raises, which is logged and slept on.
RemoveAttempt ==
    /\ pc = "remove"
    /\ LoopRuns(Len(removeLog))
    /\ \/ /\ removeLog' = Append(removeLog, TRUE)
          /\ tempfile' = "removed"
          /\ removeRet' = Some(TRUE)
          /\ pc' = AfterRemove
       \/ /\ removeLog' = Append(removeLog, FALSE)
          /\ UNCHANGED <<tempfile, removeRet, pc>>
    /\ UNCHANGED <<kind, req, key, conn1, conn2, handler, openAtRemove, resp,
                   ioFailed, readClosed, hist, env>>

\* The loop ran out of attempts: False is returned.
RemoveGiveUp ==
    /\ pc = "remove"
    /\ ~LoopRuns(Len(removeLog))
    /\ removeRet' = Some(FALSE)
    /\ pc' = AfterRemove
    /\ UNCHANGED <<kind, req, key, tempfile, conn1, conn2, handler, removeLog,
                   openAtRemove, resp, ioFailed, readClosed, hist, env>>

\* if not result["battery_data"]
\* (NoBatteryData_no_types: empty only when no message of any type was seen.)
NoBatteryData_no_types(res, types) == res.battery_data = <<>> /\ types = {}
NoBatteryData(res, types) == res.battery_data = <<>>

\* No battery data: HTTP 400 with the message types seen.
RespondNoBat ==
    /\ pc = "check"
    /\ NoBatteryData(result[1], message_types)
    /\ resp' = Response(400, [error |-> "No BAT messages found in the log",
                              message_types |-> sorted(message_types)])
    /\ pc' = "done"
    /\ UNCHANGED <<kind, req, key, tempfile, conn1, conn2, rm, ioFailed, readClosed,
                   hist, env>>

\* round(x, 2) if x is not None else None, x an integer number of millivolts.
RoundOpt(x) == IF x = None THEN {None} ELSE {Some(r) : r \in Round2(x[1], 1)}
\* The same for the mean, a rational.
RoundOptMean(x) ==
    IF x = None THEN {None} ELSE {Some(r) : r \in Round2(x[1].num, x[1].den)}

\* stored_data
\* (StoredData_full_list: the whole battery_data list, not response_data.)
StoredData_full_list(res, response_data, mx, mn, me, types, t) ==
    [battery_data  |-> res.battery_data,
     max_voltage   |-> mx,
     min_voltage   |-> mn,
     mean_voltage  |-> me,
     message_types |-> sorted(types),
     timestamp     |-> t]
StoredData(res, response_data, mx, mn, me, types, t) ==
    [battery_data  |-> response_data,
     max_voltage   |-> mx,
     min_voltage   |-> mn,
     mean_voltage  |-> me,
     message_types |-> sorted(types),
     timestamp     |-> t]

\* Battery data was found: it is cut to the limit, the metrics are rounded,
\* the result is saved under the key and answered with HTTP 200; HTTP 500
\* when saving failed.
RespondStore ==
    /\ pc = "check"
    /\ ~NoBatteryData(result[1], message_types)
    /\ \E limit \in Limits, full_data \in BOOLEAN,
          mx \in RoundOpt(result[1].max_voltage),
          mn \in RoundOpt(result[1].min_voltage),
          me \in RoundOptMean(result[1].mean_voltage),
          outcome \in {"saved", "open_failed", "dump_failed"} :
          LET response_data == ResponseData(result[1].battery_data, limit, full_data)
              stored_data == StoredData(result[1], response_data, mx, mn, me,
                                        message_types, now)
          IN  /\ store' = save_processed_data(store, key, stored_data, outcome)
              /\ resp' = IF outcome = "saved"
                         THEN Response(200, UploadBody(key, response_data, stored_data))
                         ELSE Response(500, [error |-> "Failed to save processed data"])
              /\ published' =
                    CASE outcome = "saved" ->
                           FileWrite(published, key, UploadBody(key, response_data, stored_data))
                      [] outcome = "open_failed" -> published
                      [] outcome = "dump_failed" ->
                           [k \in DOMAIN published \ {key} |-> published[k]]
              /\ autoKeys' = IF outcome = "saved" /\ req.keyParam = None
                             THEN Append(autoKeys, key) ELSE autoKeys
    /\ pc' = "done"
    /\ UNCHANGED <<kind, req, key, tempfile, conn1, conn2, rm, ioFailed, readClosed,
                   now, served>>

\* The end of the except block: HTTP 500.
RespondError ==
    /\ pc = "error"
    /\ resp' = Response(500, [error |-> "Error processing file"])
    /\ pc' = "done"
    /\ UNCHANGED <<kind, req, key, tempfile, conn1, conn2, rm, ioFailed, readClosed,
                   hist, env>>

----------------------------------------------------------------------------
(* GET /data/<key>, the clock, and the end of a request.                   *)

Get ==
    /\ pc = "idle" /\ served < MaxRequests
    /\ \E k \in DOMAIN store \cup {"nokey"} :
          /\ key' = k
          /\ resp' = get_stored_data(store, k)
    /\ kind' = "get"
    /\ pc' = "done"
    /\ UNCHANGED <<req, tempfile, conn1, conn2, rm, ioFailed, readClosed, hist, env>>

\* A second passes.
Tick ==
    /\ now < 1700000000 + MaxTicks
    /\ now' = now + 1
    /\ UNCHANGED <<store, served, hist, local>>

\* The response is sent; the handler's locals are gone.
Finish ==
    /\ pc = "done"
    /\ served' = served + 1
    /\ kind' = "none" /\ pc' = "idle" /\ req' = NoRequest /\ key' = ""
    /\ tempfile' = "none"
    /\ mlog' = "unopened" /\ mlogPos' = 0 /\ message_types' = {}
    /\ blog' = "unopened" /\ blogPos' = 0
    /\ battery_data' = <<>> /\ voltages' = <<>> /\ result' = None
    /\ handler' = FALSE /\ removeLog' = <<>> /\ removeRet' = None
    /\ resp' = NoResponse
    /\ ioFailed' = FALSE /\ readClosed' = FALSE /\ openAtRemove' = {}
    /\ UNCHANGED <<now, store, hist>>

\* The steps inside a running upload.
UploadStep ==
    \/ SaveTemp \/ OpenLog \/ ReadLog \/ CloseLog
    \/ BatOpen \/ BatRead \/ BatClose \/ BatReturn \/ BatExcept
    \/ CleanUp \/ ExceptHandler \/ RemoveAttempt \/ RemoveGiveUp
    \/ RespondNoBat \/ RespondStore \/ RespondError

\* The server: uploads of the logs of ServerLogs and reads, one after another.
Next ==
    \/ UploadNoFile(MaxRequests)
    \/ UploadNoName(MaxRequests)
    \/ UploadStart(ServerLogs, KeyParams, MaxRequests)
    \/ UploadStep
    \/ Get
    \/ Tick
    \/ Finish

Spec == Init /\ [][Next]_vars

\* One upload of any log of at most MaxLen messages.
NextLog ==
    \/ UploadStart(AllLogs, {Some("flightA")}, 1)
    \/ UploadStep
    \/ Finish

SpecLog == Init /\ [][NextLog]_vars

----------------------------------------------------------------------------
(* What the claims speak of, stated without the operators above.           *)

IsBat(m) == m.type = "BAT"

\* The BAT messages of the uploaded log, in order.
BatMessages == SelectSeq(req.log, IsBat)

\* Their Volt values, for a log whose BAT messages all have one.
BatVolts == [i \in 1..Len(BatMessages) |-> BatMessages[i].fields.Volt]

\* The type names of the messages of the uploaded log.
ObservedTypes == {req.log[i].type : i \in 1..Len(req.log)}

OptionalFields == {"VoltR", "CurrTot", "EnrgTot", "Temp", "Res", "RemPct", "H", "SH"}

\* rec is the record of BAT message m.
IsRecordOf(rec, m) ==
    /\ rec.timestamp.sec * 1000000 + rec.timestamp.usec = m.fields.TimeUS
    /\ rec.timestamp.usec \in 0..999999
    /\ rec.Volt = m.fields.Volt
    /\ rec.Curr = m.fields.Curr
    /\ \A f \in OptionalFields :
          rec[f] = IF f \in DOMAIN m.fields THEN <<m.fields[f]>> ELSE <<>>

CheckedFields ==
    {"battery_data", "max_voltage", "min_voltage", "mean_voltage", "message_types"}

----------------------------------------------------------------------------
(* The claims.                                                             *)

\* C1: after POST /upload answered HTTP 200 with key k, and until a later
\* upload writes the file of k, GET /data/k answers HTTP 200 with
\* battery_data, max_voltage, min_voltage, mean_voltage and message_types
\* equal to those of that upload's answer.
C1_RoundTrip ==
    /\ \A k \in DOMAIN published :
          LET g == get_stored_data(store, k)
          IN  /\ g.status = 200
              /\ \A f \in CheckedFields : g.body[f] = published[k][f]
    /\ (kind = "get" /\ pc = "done" /\ key \in DOMAIN published) =>
          /\ resp.status = 200
          /\ \A f \in CheckedFields : resp.body[f] = published[key][f]
    /\ (kind = "upload" /\ pc = "done" /\ resp.status = 200) =>
          /\ key \in DOMAIN published
          /\ published[key] = resp.body

\* A GET answered a key whose upload returned a battery_data list cut to
\* one record and a mean of 12.4667 V rounded to 12.47 V.
C1_Witness ==
    /\ kind = "get" /\ pc = "done" /\ key \in DOMAIN published
    /\ Len(published[key].battery_data) = 1
    /\ published[key].mean_voltage = <<12470>>
    /\ resp.status = 200

\* C2: whenever process_battery_data returns, battery_data holds exactly one
\* record per BAT message of the log, in the order of the log, and nothing
\* for a message of another type.
C2_OneRecordPerBat ==
    result # None =>
        LET bd == result[1].battery_data
        IN  /\ Len(bd) = Len(BatMessages)
            /\ Len(bd) = Cardinality({i \in 1..Len(req.log) : req.log[i].type = "BAT"})
            /\ \A i \in 1..Len(bd) : IsRecordOf(bd[i], BatMessages[i])

\* It returned for a log of two BAT messages around a message of another
\* type that carries Volt too.
C2_Witness ==
    /\ result # None
    /\ req.log = <<B2, CurrMsg, B1>>

\* C3: for a log with at least one BAT message, max_voltage, min_voltage and
\* mean_voltage returned by process_battery_data are the maximum, minimum
\* and arithmetic mean of the Volt values of its BAT messages, so that
\* min <= mean <= max; 12.6, 12.4, 12.5 give 3 records, 12.6, 12.4 and 12.5.
C3_VoltageMetrics ==
    (result # None /\ BatMessages # <<>>) =>
        LET r == result[1]
            vs == BatVolts
            n == Len(vs)
        IN  /\ r.max_voltage # None /\ r.min_voltage # None /\ r.mean_voltage # None
            /\ \E i \in 1..n : vs[i] = r.max_voltage[1]
            /\ \A i \in 1..n : vs[i] <= r.max_voltage[1]
            /\ \E i \in 1..n : vs[i] = r.min_voltage[1]
            /\ \A i \in 1..n : vs[i] >= r.min_voltage[1]
            /\ r.mean_voltage[1].den > 0
            /\ r.mean_voltage[1].num * n = SeqSum(vs) * r.mean_voltage[1].den
            /\ r.min_voltage[1] * r.mean_voltage[1].den <= r.mean_voltage[1].num
            /\ r.mean_voltage[1].num <= r.max_voltage[1] * r.mean_voltage[1].den
            /\ vs = <<12600, 12400, 12500>> =>
                  /\ Len(r.battery_data) = 3
                  /\ r.max_voltage = <<12600>>
                  /\ r.min_voltage = <<12400>>
                  /\ r.mean_voltage = <<[num |-> 12500, den |-> 1]>>

\* It returned for the log of the three BAT messages 12.6, 12.4, 12.5.
C3_Witness ==
    /\ result # None
    /\ BatMessages # <<>>
    /\ BatVolts = <<12600, 12400, 12500>>

\* C4: for a log without BAT messages, empty or not, process_battery_data
\* raises nothing once its connection is open and delivers the log, and it
\* returns an empty battery_data with max, min and mean voltage None.
C4_NoBatIsEmptyResult ==
    BatMessages = <<>> =>
        /\ pc = "bat_except" => ioFailed
        /\ pc \in {"bat_read", "bat_close", "bat_return"} =>
              battery_data = <<>> /\ voltages = <<>>
        /\ result # None =>
              result[1] = [battery_data |-> <<>>, max_voltage |-> <<>>,
                           min_voltage |-> <<>>, mean_voltage |-> <<>>]

\* It returned for a log that holds only messages of other types.
C4_Witness ==
    /\ result # None
    /\ req.log = <<GpsMsg, CurrMsg>>

\* C5 as stated: a log with zero BAT messages and messages of other types
\* is not answered with HTTP 400.
C5_OtherTypesAreSuccess ==
    (kind = "upload" /\ pc = "done" /\ result # None
       /\ BatMessages = <<>> /\ req.log # <<>>) =>
        resp.status # 400

\* C5 as amended: once process_battery_data has returned, POST /upload
\* answers HTTP 400 exactly when battery_data is empty, and so it does for
\* every log without BAT messages, whatever other types it holds.
C5_EmptyResultIs400 ==
    (kind = "upload" /\ pc = "done" /\ result # None) =>
        /\ resp.status = 400 <=> result[1].battery_data = <<>>
        /\ BatMessages = <<>> =>
              /\ resp.status = 400
              /\ resp.body.error = "No BAT messages found in the log"

\* A log of other types only was answered with HTTP 400.
C5_Witness ==
    /\ kind = "upload" /\ pc = "done"
    /\ req.log = <<GpsMsg, CurrMsg>>
    /\ resp.status = 400

\* C6: a BAT message that cannot be turned into a record does not end the
\* session: process_battery_data raises only when opening or reading the
\* log failed, and otherwise returns the record of every BAT message that
\* has TimeUS, Volt and Curr.
C6_MessageErrorNotFatal ==
    /\ pc = "bat_except" => ioFailed
    /\ (kind = "upload" /\ pc = "done" /\ blog # "unopened" /\ ~ioFailed) =>
          /\ result # None
          /\ LET good(m) == IsBat(m) /\ {"TimeUS", "Volt", "Curr"} \subseteq DOMAIN m.fields
                 goodBats == SelectSeq(req.log, good)
             IN  /\ Len(result[1].battery_data) = Len(goodBats)
                 /\ \A i \in 1..Len(goodBats) :
                       IsRecordOf(result[1].battery_data[i], goodBats[i])

\* C7: message_types of the HTTP 200 answer and of the HTTP 400 'No BAT
\* messages' answer of POST /upload lists the type names of the messages of
\* the log, each once and in ascending order, and nothing else; it holds
\* "BAT" whenever the answer's battery_data is not empty.
C7_MessageTypes ==
    (kind = "upload" /\ pc = "done" /\ result # None /\ resp.status \in {200, 400}) =>
        /\ "message_types" \in DOMAIN resp.body
        /\ LET mt == resp.body.message_types
           IN  /\ {mt[i] : i \in 1..Len(mt)} = ObservedTypes
               /\ \A i, j \in 1..Len(mt) : i < j => TypeRank[mt[i]] < TypeRank[mt[j]]
               /\ (resp.status = 200 /\ resp.body.battery_data # <<>>) =>
                     \E i \in 1..Len(mt) : mt[i] = "BAT"

\* HTTP 200 for a log whose three types arrive in descending order.
C7_Witness ==
    /\ kind = "upload" /\ pc = "done" /\ resp.status = 200
    /\ req.log = <<GpsMsg, CurrMsg, B1>>
    /\ resp.body.battery_data # <<>>

\* C8: whenever safe_remove_file is called, every connection that was
\* opened has been closed, and no closed connection is read from.
C8_ClosedBeforeRemove ==
    /\ pc = "remove" => openAtRemove = {}
    /\ ~readClosed

\* C9: safe_remove_file makes at most `retries` attempts, a further one
\* when the first failed, and returns True exactly when one succeeded.
C9_BoundedRetries ==
    removeRet # None =>
        /\ Len(removeLog) <= Retries
        /\ (removeLog # <<>> /\ ~removeLog[1]) => Len(removeLog) >= 2
        /\ removeRet[1] <=> \E i \in 1..Len(removeLog) : removeLog[i]

\* C10: two HTTP 200 uploads without a key parameter never get the same key.
C10_GeneratedKeysUnique ==
    \A i, j \in 1..Len(autoKeys) : i # j => autoKeys[i] # autoKeys[j]

====
